---- MODULE Spec2Model ----
(***************************************************************************)
(* FRED extraction pipeline of kennydoit/fred-database.                    *)
(*                                                                         *)
(* The repository holds two extraction programs, each with its own schema: *)
(*   path = "scripts" : scripts/extract_fred_data.py (main,                *)
(*                      extract_and_store) writing series_metadata,        *)
(*                      fred_data_long and extraction_log through one      *)
(*                      sqlite cursor, committed once per series;          *)
(*   path = "package" : src/fred_extractor.py (FREDExtractor) writing      *)
(*                      series_metadata, observations and extraction_log   *)
(*                      through src/database.py (FREDDatabase), every      *)
(*                      method committing on its own.                      *)
(* A behaviour runs one of the two programs (path is fixed in Init).       *)
(*                                                                         *)
(* scripts/transform_fred_data.py denormalizes the long store into         *)
(* fred_data_wide.  SpecWide runs its main over a long store that grows,   *)
(* SpecUpsert applies upsert_wide_table to any table and frame.            *)
(*                                                                         *)
(* Dates are ISO texts in the code.  A text is modelled as <<month, day>>  *)
(* over a small calendar; the code's text operations (SQL MAX, strptime,   *)
(* strftime) are modelled on the text, the provider's own date arithmetic  *)
(* on the day number.                                                      *)
(***************************************************************************)
EXTENDS Integers, Sequences, FiniteSets, TLC

VARIABLES path, today, nfaults,
          series_metadata, fred_data_long, observations, extraction_log,
          run, prev, last,
          df, wide_df, fred_data_wide, nrows

vars == <<path, today, nfaults,
          series_metadata, fred_data_long, observations, extraction_log,
          run, prev, last,
          df, wide_df, fred_data_wide, nrows>>

---------------------------------------------------------------------------
(* Bounds *)

\* days of the model calendar: 1..MaxDay
MaxDay == 3

\* extraction runs started in one behaviour
MaxRuns == 2

\* failing calls (provider or storage) in one behaviour
MaxFaults == 1

(* Program configuration *)

\* config.yaml start_date (day number of the default start date)
DefaultStartDay == 2

\* common_series of config.yaml, flattened in catalog order
Catalog == <<"A", "B">>

Series == {Catalog[i] : i \in 1..Len(Catalog)}

NoDate == <<>>

Null == "NULL"

---------------------------------------------------------------------------
(* Date texts *)

\* days in one month of the model calendar
MonthLen == (MaxDay + 1) \div 2

\* datetime.strftime("%Y-%m-%d"): day number -> text
strftime(n) == <<((n - 1) \div MonthLen) + 1, ((n - 1) % MonthLen) + 1>>

\* datetime.strptime(text, "%Y-%m-%d"): text -> day number
strptime(t) == (t[1] - 1) * MonthLen + t[2]

\* order of TEXT values in sqlite (lexicographic)
TextLeq(a, b) == a[1] < b[1] \/ (a[1] = b[1] /\ a[2] <= b[2])

\* SQL MAX over a set of texts; NULL (NoDate) on no rows
TextMax(S) == IF S = {} THEN NoDate ELSE CHOOSE m \in S : \A x \in S : TextLeq(x, m)

DefaultStart == strftime(DefaultStartDay)

---------------------------------------------------------------------------
(***************************************************************************)
(* Provider (external collaborator).  It publishes series "A" every day    *)
(* and every other series on even days, reports the missing-value token on *)
(* odd days, and revises a value the day after it first reported it.       *)
(***************************************************************************)

\* the days, up to today, for which the provider has an observation of s
Published(s) == {d \in 1..today : s = "A" \/ d % 2 = 0}

\* raw value the provider reports today for day d; "." is its missing-value token
PValue(s, d) == IF d % 2 = 1 THEN "." ELSE IF today > d THEN "2.0" ELSE "1.0"

Min(S) == CHOOSE m \in S : \A x \in S : m <= x

RECURSIVE Ascending(_)
Ascending(S) == IF S = {} THEN <<>> ELSE <<Min(S)>> \o Ascending(S \ {Min(S)})

\* observations of s dated at or after start (all of them when start is absent),
\* in ascending date order, stamped with the realtime period (today)
ProviderObservations(s, start) ==
    LET ds == {d \in Published(s) : start = NoDate \/ d >= strptime(start)}
        sq == Ascending(ds)
    IN [i \in 1..Len(sq) |->
          [date |-> strftime(sq[i]), value |-> PValue(s, sq[i]), realtime |-> today]]

---------------------------------------------------------------------------
(* scripts/extract_fred_data.py *)

\* the database as one cursor sees it
Cursor == [series_metadata |-> series_metadata,
           fred_data_long |-> fred_data_long,
           extraction_log |-> extraction_log]

upsert_series_metadata(cur, series_id, infoOK) ==
    IF infoOK
    THEN [cur EXCEPT !.series_metadata =
            {m \in @ : m.id # series_id} \cup {[id |-> series_id, last_updated |-> today]}]
    ELSE cur

\* float(value) if value is not None else None, as sqlite stores it (NaN is NULL)
ToReal(v) == IF v = "." THEN Null ELSE v

\* INSERT OR REPLACE INTO fred_data_long under UNIQUE(series_id, date)
InsertOrReplace(long, row) ==
    {r \in long : ~(r.series_id = row.series_id /\ r.date = row.date)} \cup {row}

RECURSIVE InsertRows(_, _, _, _)
InsertRows(long, series_id, data, n) ==
    IF n = 0 THEN long
    ELSE InsertOrReplace(InsertRows(long, series_id, data, n - 1),
                         [series_id |-> series_id, date |-> data[n].date,
                          value |-> ToReal(data[n].value)])

\* the loop writes the first n rows of data (n < Len(data): the write of row n+1 raised)
insert_observations(cur, series_id, data, n) ==
    [cur EXCEPT !.fred_data_long = InsertRows(@, series_id, data, n)]

\* as log_extraction, written as "if len(data): log_extraction(...)"
log_extraction_SkipEmpty(cur, series_id, status, records, message) ==
    IF status = "success" /\ records = 0
    THEN cur
    ELSE [cur EXCEPT !.extraction_log =
            Append(@, [series_id |-> series_id, status |-> status,
                       records |-> records, message |-> message])]

log_extraction(cur, series_id, status, records, message) ==
    [cur EXCEPT !.extraction_log =
        Append(@, [series_id |-> series_id, status |-> status,
                   records |-> records, message |-> message])]

get_latest_date(cur, series_id) ==
    TextMax({r.date : r \in {x \in cur.fred_data_long : x.series_id = series_id}})

\* as StartDate, without the timedelta(days=1)
StartDate_NoAdvance(cur, series_id, default_start_date) ==
    LET latest_date == get_latest_date(cur, series_id)
    IN IF latest_date # NoDate THEN latest_date ELSE default_start_date

\* lines 63-69: the start date requested from the provider
StartDate(cur, series_id, default_start_date) ==
    LET latest_date == get_latest_date(cur, series_id)
    IN IF latest_date # NoDate
       THEN strftime(strptime(latest_date) + 1)
       ELSE default_start_date

\* what one call of extract_and_store does to the cursor.  f says which of the
\* calls it makes fail: f.fetch (fred.get_series), f.info (fred.get_series_info or the
\* metadata write), f.rows (observation rows written before a write raises; no write
\* raises when f.rows >= len(data)), f.log (the audit write: while it fails, it fails
\* on the success path and in the except clause alike).
extract_and_store(series_id, default_start_date, cur, f) ==
    LET start_date == StartDate(cur, series_id, default_start_date)
        data == ProviderObservations(series_id, start_date)
        n == IF f.rows < Len(data) THEN f.rows ELSE Len(data)
        c1 == upsert_series_metadata(cur, series_id, f.info)
        c2 == insert_observations(c1, series_id, data, n)
        \* the exception the try block raises, "none" when it runs to its end
        exc == IF ~f.fetch THEN "provider"
               ELSE IF n < Len(data) \/ ~f.log THEN "storage"
               ELSE "none"
        \* the cursor when the try block ends or raises
        ctry == IF ~f.fetch THEN cur ELSE c2
    IN [cur |-> IF exc = "none"
                THEN log_extraction(c2, series_id, "success", Len(data), "records")
                ELSE IF f.log
                     THEN log_extraction(ctry, series_id, "error", 0, exc)
                     ELSE ctry,
        \* the except clause's own log_extraction raised
        raised |-> exc # "none" /\ ~f.log,
        start_date |-> start_date,
        fetched |-> IF f.fetch THEN Len(data) ELSE -1,
        faults |-> (IF ~f.fetch THEN {"fetch"} ELSE {})
                   \cup (IF f.fetch /\ ~f.info THEN {"info"} ELSE {})
                   \cup (IF f.fetch /\ n < Len(data) THEN {"rows"} ELSE {})
                   \cup (IF ~f.log THEN {"log"} ELSE {})]

Faults == [fetch : BOOLEAN, info : BOOLEAN, rows : 0..MaxDay, log : BOOLEAN]

\* the failures f asks for
Asked(f) == (IF ~f.fetch THEN {"fetch"} ELSE {}) \cup (IF ~f.info THEN {"info"} ELSE {})
            \cup (IF f.rows < MaxDay THEN {"rows"} ELSE {})
            \cup (IF ~f.log THEN {"log"} ELSE {})

---------------------------------------------------------------------------
(* src/database.py (FREDDatabase) and src/fred_extractor.py (FREDExtractor) *)

\* the database as FREDDatabase sees it; every method below commits on its own
Database == [series_metadata |-> series_metadata,
             observations |-> observations,
             extraction_log |-> extraction_log]

\* get_series_list over the series that have an observation stored
db_get_series_list_Stored(db) == {o.series_id : o \in db.observations}

db_get_series_list(db) == {m.id : m \in db.series_metadata}

\* INSERT OR REPLACE and commit; on an exception rollback and False
db_insert_series_metadata(db, series_id, ok) ==
    [db |-> IF ok
            THEN [db EXCEPT !.series_metadata =
                    {m \in @ : m.id # series_id}
                    \cup {[id |-> series_id, last_updated |-> today]}]
            ELSE db,
     result |-> ok]

\* obs.get('value') if obs.get('value') != '.' else None
ToValue(v) == IF v = "." THEN Null ELSE v

\* INSERT OR IGNORE INTO observations under
\* UNIQUE(series_id, date, realtime_start, realtime_end)
Conflicts(rows, row) ==
    \E r \in rows : /\ r.series_id = row.series_id
                    /\ r.date = row.date
                    /\ r.realtime = row.realtime

ObsRow(series_id, obs) ==
    [series_id |-> series_id, date |-> obs.date, value |-> ToValue(obs.value),
     realtime |-> obs.realtime]

\* the loop over the first n observations; the INSERT of observation number bad
\* raises (0: none does), which the loop logs and passes over
RECURSIVE InsertObs(_, _, _, _, _)
InsertObs(rows, series_id, obs, n, bad) ==
    IF n = 0 THEN [rows |-> rows, inserted_count |-> 0]
    ELSE LET before == InsertObs(rows, series_id, obs, n - 1, bad)
             row == ObsRow(series_id, obs[n])
         IN IF n = bad \/ Conflicts(before.rows, row)
            THEN before
            ELSE [rows |-> before.rows \cup {row},
                  inserted_count |-> before.inserted_count + 1]

db_insert_observations(db, series_id, obs, bad) ==
    LET r == InsertObs(db.observations, series_id, obs, Len(obs), bad)
    IN [db |-> [db EXCEPT !.observations = r.rows], inserted_count |-> r.inserted_count]

\* INSERT INTO extraction_log and commit; an exception is logged and swallowed
db_log_extraction(db, series_id, status, records_extracted, error_message, ok) ==
    IF ok
    THEN [db EXCEPT !.extraction_log =
            Append(@, [series_id |-> series_id, status |-> status,
                       records |-> records_extracted, message |-> error_message])]
    ELSE db

\* what one call of extract_series does.  f says which of the calls it makes fail:
\* f.info (get_series_info), f.meta (the metadata write), f.fetch
\* (get_series_observations), f.bad (the observation whose INSERT raises, 0: none),
\* f.log (the audit write); f.kill is where the process is killed ("none": nowhere,
\* "meta": after insert_series_metadata, "obs": after insert_observations).
extract_series(series_id, start_date, force_update, db, f) ==
    LET skip == series_id \in db_get_series_list(db) /\ ~force_update
        m == db_insert_series_metadata(db, series_id, f.meta)
        obs == ProviderObservations(series_id, start_date)
        ins == db_insert_observations(m.db, series_id, obs, f.bad)
        \* how far the call gets
        at == IF skip THEN "skip"
              ELSE IF ~f.info THEN "info"
              ELSE IF ~f.meta THEN "meta"
              ELSE IF f.kill = "meta" THEN "killmeta"
              ELSE IF ~f.fetch THEN "fetch"
              ELSE IF obs = <<>> THEN "empty"
              ELSE IF f.kill = "obs" THEN "killobs"
              ELSE "stored"
        logged == at \in {"info", "meta", "fetch", "empty", "stored"}
    IN [db |-> CASE at = "skip" -> db
                 [] at = "info" ->
                      db_log_extraction(db, series_id, "failed", 0, "provider", f.log)
                 [] at = "meta" ->
                      db_log_extraction(m.db, series_id, "failed", 0,
                                        "Failed to store metadata", f.log)
                 [] at = "killmeta" -> m.db
                 [] at = "fetch" ->
                      db_log_extraction(m.db, series_id, "failed", 0, "provider", f.log)
                 [] at = "empty" ->
                      db_log_extraction(m.db, series_id, "success", 0,
                                        "No observations found", f.log)
                 [] at = "killobs" -> ins.db
                 [] at = "stored" ->
                      db_log_extraction(ins.db, series_id, "success",
                                        ins.inserted_count, "none", f.log),
        result |-> at \in {"skip", "empty", "stored"},
        killed |-> at \in {"killmeta", "killobs"},
        skipped |-> at = "skip",
        requested |-> at \in {"fetch", "empty", "killobs", "stored"},
        fetched |-> IF at \in {"empty", "killobs", "stored"} THEN Len(obs) ELSE -1,
        faults |-> (IF at = "info" THEN {"info"} ELSE {})
                   \cup (IF at = "meta" THEN {"meta"} ELSE {})
                   \cup (IF at = "fetch" THEN {"fetch"} ELSE {})
                   \cup (IF at \in {"killobs", "stored"} /\ f.bad \in 1..Len(obs)
                         THEN {"rows"} ELSE {})
                   \cup (IF logged /\ ~f.log THEN {"log"} ELSE {})
                   \cup (IF at \in {"killmeta", "killobs"} THEN {"kill"} ELSE {})]

PackageFaults == [info : BOOLEAN, meta : BOOLEAN, fetch : BOOLEAN, bad : 0..MaxDay,
                  log : BOOLEAN, kill : {"none", "meta", "obs"}]

\* the failures f asks for
PackageAsked(f) ==
    (IF ~f.info THEN {"info"} ELSE {}) \cup (IF ~f.meta THEN {"meta"} ELSE {})
    \cup (IF ~f.fetch THEN {"fetch"} ELSE {}) \cup (IF f.bad > 0 THEN {"rows"} ELSE {})
    \cup (IF ~f.log THEN {"log"} ELSE {}) \cup (IF f.kill # "none" THEN {"kill"} ELSE {})

---------------------------------------------------------------------------
(* scripts/transform_fred_data.py: the long store denormalized into fred_data_wide *)

\* first day of the calendar shell (2018-01-01 in the code, later than the default
\* start date of the extraction, 1950-01-01)
ShellStartDay == 2

\* long rows the store holds between two runs of the transform, at most
MaxRows == 2

\* pandas' missing value in a frame (SQL NULL is Null)
NaN == "NaN"

\* a frame of wide rows: index (the date labels in row order), columns, values[date][col]
NoFrame == [index |-> <<>>, columns |-> {}, values |-> <<>>]

\* fred_data_wide as setup_database creates it: date TEXT PRIMARY KEY and no other
\* column, no row.  columns: the columns besides date; rows: the rows, each a date and
\* its cells[col]
NoTable == [columns |-> {}, rows |-> {}]

\* the rows SELECT date, series_id, value FROM fred_data_long can return, NULL read
\* as NaN
LongRows == [date : {strftime(d) : d \in 1..MaxDay}, series_id : Series,
             value : {"1.0", "2.0", NaN}]

\* fetch_date_shell: SELECT date FROM date_shell ORDER BY date, over the days
\* setup_database populated
date_shell == [i \in 1..(MaxDay - ShellStartDay + 1) |-> strftime(ShellStartDay + i - 1)]

Elems(s) == {s[i] : i \in 1..Len(s)}

TextMin(S) == CHOOSE m \in S : \A x \in S : TextLeq(m, x)

\* labels in ascending text order
RECURSIVE SortText(_)
SortText(S) == IF S = {} THEN <<>> ELSE <<TextMin(S)>> \o SortText(S \ {TextMin(S)})

\* df.drop_duplicates(subset=["date", "series_id"], keep="last")
drop_duplicates(d) ==
    LET keep == {i \in 1..Len(d) :
                   \A j \in (i + 1)..Len(d) :
                      d[j].date # d[i].date \/ d[j].series_id # d[i].series_id}
        idx == Ascending(keep)
    IN [i \in 1..Len(idx) |-> d[idx[i]]]

\* df.pivot(index="date", columns="series_id", values="value"): one row per date of
\* df in sorted order, one column per series_id, NaN where df has no row
pivot(d) ==
    LET dates == {d[i].date : i \in 1..Len(d)}
        cols == {d[i].series_id : i \in 1..Len(d)}
        at(t, c) == {i \in 1..Len(d) : d[i].date = t /\ d[i].series_id = c}
    IN [index |-> SortText(dates),
        columns |-> cols,
        values |-> [t \in dates |->
                      [c \in cols |-> IF at(t, c) = {} THEN NaN
                                      ELSE d[CHOOSE i \in at(t, c) : TRUE].value]]]

\* f"fred_{col}"
fred_(col) == "fred_" \o col

\* wide_df.columns = [f"fred_{col}" for col in wide_df.columns]
rename(w) ==
    [index |-> w.index,
     columns |-> {fred_(c) : c \in w.columns},
     values |-> [t \in DOMAIN w.values |->
                   [k \in {fred_(c) : c \in w.columns} |->
                      w.values[t][CHOOSE c \in w.columns : fred_(c) = k]]]]

\* wide_df.reindex(labels): the rows of the labels, in their order; a label the frame
\* has no row for gets a row of NaN, a row whose label is not asked for is dropped
reindex(w, labels) ==
    [index |-> labels,
     columns |-> w.columns,
     values |-> [t \in Elems(labels) |->
                   IF t \in DOMAIN w.values THEN w.values[t]
                   ELSE [c \in w.columns |-> NaN]]]

\* wide_df.sort_index()
sort_index(w) == [w EXCEPT !.index = SortText(Elems(w.index))]

\* wide_df.ffill(): down each column, a NaN takes the last value above it that is not
\* NaN
ffill(w) ==
    LET filled(i, c) ==
          LET above == {j \in 1..i : w.values[w.index[j]][c] # NaN}
          IN IF above = {} THEN NaN
             ELSE w.values[w.index[CHOOSE j \in above : \A k \in above : k <= j]][c]
        pos(t) == CHOOSE i \in 1..Len(w.index) : w.index[i] = t
    IN [w EXCEPT !.values = [t \in DOMAIN w.values |->
                               [c \in w.columns |-> filled(pos(t), c)]]]

\* loc without the cut: every row is kept
loc_NoCut(w, label) == w

\* wide_df.loc[:label] on a sorted index of texts: the rows up to label, label included
loc(w, label) ==
    LET index == SelectSeq(w.index, LAMBDA t : TextLeq(t, label))
    IN [index |-> index,
        columns |-> w.columns,
        values |-> [t \in Elems(index) |-> w.values[t]]]

\* pd.Timestamp.today().strftime('%Y-%m-%d')
today_str == strftime(today)

denormalize_observations(d, date_shell_df) ==
    loc(ffill(sort_index(reindex(rename(pivot(drop_duplicates(d))), date_shell_df))),
        today_str)

\* ensure_columns without its ALTER TABLE
ensure_columns_Skip(conn, columns) == conn

\* ensure_columns: ALTER TABLE fred_data_wide ADD COLUMN for every column not in
\* PRAGMA table_info; the stored rows hold NULL in an added column
ensure_columns(conn, columns) ==
    LET existing_cols == conn.columns \cup {"date"}
        added == {col \in columns : col \notin existing_cols}
    IN [columns |-> conn.columns \cup added,
        rows |-> {[date |-> r.date,
                   cells |-> [c \in conn.columns \cup added |->
                                IF c \in added THEN Null ELSE r.cells[c]]] :
                  r \in conn.rows}]

\* row[col] if pd.notnull(row[col]) else None
ToSql(v) == IF v = NaN THEN Null ELSE v

\* the upsert as INSERT OR REPLACE: the stored row of the date is deleted
UpsertRow_Replace(conn, date, row) ==
    [conn EXCEPT !.rows =
       {r \in @ : r.date # date}
       \cup {[date |-> date,
               cells |-> [c \in conn.columns |->
                            IF c \in DOMAIN row THEN ToSql(row[c]) ELSE Null]]}]

\* INSERT INTO fred_data_wide (date, cols) VALUES (...) ON CONFLICT(date) DO UPDATE
\* SET col = excluded.col for every col of the frame
UpsertRow(conn, date, row) ==
    LET excluded == [c \in conn.columns |->
                       IF c \in DOMAIN row THEN ToSql(row[c]) ELSE Null]
        conflict == {r \in conn.rows : r.date = date}
    IN [conn EXCEPT !.rows =
          IF conflict = {} THEN @ \cup {[date |-> date, cells |-> excluded]}
          ELSE {IF r \notin conflict THEN r
                ELSE [r EXCEPT !.cells = [c \in conn.columns |->
                                           IF c \in DOMAIN row THEN excluded[c]
                                           ELSE r.cells[c]]] :
                r \in @}]

\* for date, row in wide_df.iterrows(), from the i-th row on
RECURSIVE UpsertRows(_, _, _)
UpsertRows(conn, w, i) ==
    IF i > Len(w.index) THEN conn
    ELSE UpsertRows(UpsertRow(conn, w.index[i], w.values[w.index[i]]), w, i + 1)

upsert_wide_table(conn, w) == UpsertRows(ensure_columns(conn, w.columns), w, 1)

---------------------------------------------------------------------------
(* Bookkeeping of runs and of the last per-series invocation *)

LongStore == IF path = "scripts" THEN fred_data_long ELSE observations

\* run: the extraction run in progress or last ended.  n: runs started; idx: position
\* in the catalog (0: no run in progress); force, start: the run's arguments; done: it
\* went through the whole catalog; clean: no call of it failed; begin: the day it began
NoRun == [n |-> 0, idx |-> 0, force |-> FALSE, start |-> NoDate,
          done |-> FALSE, clean |-> TRUE, begin |-> 0]

\* last: the last per-series extraction call.  start_date: the start date it asked the
\* provider for; requested: it sent the observation request; fetched: observations the
\* provider returned (-1: no answer); faults: the calls that failed in it; raised: an
\* exception left it; skipped: it returned before any request
NoCall == [series |-> "none", start_date |-> NoDate, requested |-> FALSE, fetched |-> -1,
           faults |-> {}, raised |-> FALSE, skipped |-> FALSE, result |-> FALSE]

Init ==
    /\ path \in {"scripts", "package"}
    /\ today = 1
    /\ nfaults = 0
    /\ series_metadata = {}
    /\ fred_data_long = {}
    /\ observations = {}
    /\ extraction_log = <<>>
    /\ run = NoRun
    /\ prev = [done |-> FALSE, clean |-> TRUE, begin |-> 0]
    /\ last = NoCall
    /\ df = <<>>
    /\ wide_df = NoFrame
    /\ fred_data_wide = NoTable
    /\ nrows = <<0, 0>>

---------------------------------------------------------------------------
(* Clock: the provider publishes and revises as days pass, between runs *)

Tick ==
    /\ run.idx = 0
    /\ today < MaxDay
    /\ today' = today + 1
    /\ UNCHANGED <<path, nfaults, series_metadata, fred_data_long, observations,
                   extraction_log, run, prev, last>>
    /\ UNCHANGED <<df, wide_df, fred_data_wide, nrows>>

---------------------------------------------------------------------------
(* scripts/extract_fred_data.py: main *)

\* main up to the loop: connect, cursor
StartRun ==
    /\ path = "scripts"
    /\ run.idx = 0
    /\ run.n < MaxRuns
    /\ prev' = [done |-> run.done, clean |-> run.clean, begin |-> run.begin]
    /\ run' = [n |-> run.n + 1, idx |-> 1, force |-> FALSE, start |-> DefaultStart,
               done |-> FALSE, clean |-> TRUE, begin |-> today]
    /\ last' = NoCall
    /\ UNCHANGED <<path, today, nfaults, series_metadata, fred_data_long,
                   observations, extraction_log>>
    /\ UNCHANGED <<df, wide_df, fred_data_wide, nrows>>

\* one iteration of main's loop: extract_and_store(series_id, start_date, cur), then
\* conn.commit().  When the call raises, main ends by the exception before the commit
\* and sqlite rolls the open transaction back.
MainStep ==
    /\ path = "scripts"
    /\ run.idx \in 1..Len(Catalog)
    /\ \E f \in Faults :
         LET series_id == Catalog[run.idx]
             r == extract_and_store(series_id, run.start, Cursor, f)
             more == run.idx < Len(Catalog)
         IN /\ nfaults + Cardinality(Asked(f)) <= MaxFaults
            /\ Asked(f) = r.faults
            /\ nfaults' = nfaults + Cardinality(r.faults)
            /\ last' = [series |-> series_id, start_date |-> r.start_date,
                        requested |-> TRUE, fetched |-> r.fetched, faults |-> r.faults,
                        raised |-> r.raised, skipped |-> FALSE, result |-> FALSE]
            /\ IF r.raised
               THEN /\ UNCHANGED <<series_metadata, fred_data_long, extraction_log>>
                    /\ run' = [run EXCEPT !.idx = 0, !.clean = FALSE]
               ELSE /\ series_metadata' = r.cur.series_metadata
                    /\ fred_data_long' = r.cur.fred_data_long
                    /\ extraction_log' = r.cur.extraction_log
                    /\ run' = [run EXCEPT !.idx = IF more THEN @ + 1 ELSE 0,
                                          !.done = ~more,
                                          !.clean = @ /\ r.faults = {}]
    /\ UNCHANGED <<path, today, observations, prev>>
    /\ UNCHANGED <<df, wide_df, fred_data_wide, nrows>>

\* the process is interrupted inside the loop: nothing written since the last
\* conn.commit() is kept
Interrupt ==
    /\ path = "scripts"
    /\ run.idx \in 1..Len(Catalog)
    /\ run' = [run EXCEPT !.idx = 0, !.clean = FALSE]
    /\ last' = NoCall
    /\ UNCHANGED <<path, today, nfaults, series_metadata, fred_data_long,
                   observations, extraction_log, prev>>
    /\ UNCHANGED <<df, wide_df, fred_data_wide, nrows>>

---------------------------------------------------------------------------
(* src/fred_extractor.py: extract_multiple_series *)

\* the call extract_multiple_series(series_ids, start_date, None, force_update), with
\* the configured default start date as start_date
ExtractMultipleSeries ==
    /\ path = "package"
    /\ run.idx = 0
    /\ run.n < MaxRuns
    /\ \E force_update \in BOOLEAN :
         run' = [n |-> run.n + 1, idx |-> 1, force |-> force_update,
                 start |-> DefaultStart, done |-> FALSE, clean |-> TRUE, begin |-> today]
    /\ prev' = [done |-> run.done, clean |-> run.clean, begin |-> run.begin]
    /\ last' = NoCall
    /\ UNCHANGED <<path, today, nfaults, series_metadata, fred_data_long,
                   observations, extraction_log>>
    /\ UNCHANGED <<df, wide_df, fred_data_wide, nrows>>

\* one iteration of its loop: extract_series(series_id, start_date, end_date,
\* force_update); every write in it is committed by the method that makes it
ExtractSeries ==
    /\ path = "package"
    /\ run.idx \in 1..Len(Catalog)
    /\ \E f \in PackageFaults :
         LET series_id == Catalog[run.idx]
             r == extract_series(series_id, run.start, run.force, Database, f)
             more == run.idx < Len(Catalog)
             cost == Cardinality(r.faults \ {"kill"})
         IN /\ nfaults + Cardinality(PackageAsked(f) \ {"kill"}) <= MaxFaults
            /\ PackageAsked(f) = r.faults
            /\ nfaults' = nfaults + cost
            /\ last' = [series |-> series_id, start_date |-> run.start,
                        requested |-> r.requested, fetched |-> r.fetched,
                        faults |-> r.faults, raised |-> FALSE, skipped |-> r.skipped,
                        result |-> r.result]
            /\ series_metadata' = r.db.series_metadata
            /\ observations' = r.db.observations
            /\ extraction_log' = r.db.extraction_log
            /\ run' = IF r.killed
                      THEN [run EXCEPT !.idx = 0, !.clean = FALSE]
                      ELSE [run EXCEPT !.idx = IF more THEN @ + 1 ELSE 0,
                                       !.done = ~more,
                                       !.clean = @ /\ r.result /\ r.faults = {}]
    /\ UNCHANGED <<path, today, fred_data_long, prev>>
    /\ UNCHANGED <<df, wide_df, fred_data_wide, nrows>>

Next == Tick \/ StartRun \/ MainStep \/ Interrupt \/ ExtractMultipleSeries \/ ExtractSeries

Spec == Init /\ [][Next]_vars

---------------------------------------------------------------------------
(* scripts/transform_fred_data.py: main, over a long store that grows *)

\* the extraction leaves one more row in fred_data_long; df is the store's rows in
\* the order fetch_observations reads them.  denormalize_observations takes any long
\* frame, two rows of one (date, series_id) included.
LongRow ==
    /\ path = "scripts"
    /\ run.idx = 0
    /\ Len(df) < MaxRows
    /\ \E row \in LongRows : df' = Append(df, row)
    /\ UNCHANGED <<path, today, nfaults, series_metadata, fred_data_long, observations,
                   extraction_log, run, prev, last>>
    /\ UNCHANGED <<wide_df, fred_data_wide, nrows>>

\* main: fetch_observations, fetch_date_shell, return when one of them is empty,
\* denormalize_observations, upsert_wide_table.  nrows: how many long rows the last
\* run read, and before it the last run that read fewer.
TransformMain ==
    /\ path = "scripts"
    /\ run.idx = 0
    /\ IF df = <<>> \/ date_shell = <<>>
       THEN UNCHANGED <<wide_df, fred_data_wide, nrows>>
       ELSE /\ wide_df' = denormalize_observations(df, date_shell)
            /\ fred_data_wide' = upsert_wide_table(fred_data_wide, wide_df')
            /\ nrows' = IF Len(df) = nrows[2] THEN nrows ELSE <<nrows[2], Len(df)>>
    /\ UNCHANGED <<path, today, nfaults, series_metadata, fred_data_long, observations,
                   extraction_log, run, prev, last>>
    /\ UNCHANGED df

InitWide == Init /\ path = "scripts"

NextWide == Tick \/ LongRow \/ TransformMain

SpecWide == InitWide /\ [][NextWide]_vars

---------------------------------------------------------------------------
(* scripts/transform_fred_data.py: upsert_wide_table, over any table and frame *)

WideColumns == {fred_(s) : s \in Series}

\* the frames upsert_wide_table is given: rows of shell dates in ascending order, at
\* least one fred_ column (with none, the statement it builds has an empty SET list)
Frames ==
    UNION {{[index |-> SortText(D), columns |-> C, values |-> v] :
              v \in [D -> [C -> {"2.0", NaN}]]} :
           <<C, D>> \in ((SUBSET WideColumns) \ {{}}) \X (SUBSET Elems(date_shell))}

\* the tables earlier runs can have left: one row per date, fred_ columns
Tables ==
    UNION {{[columns |-> C, rows |-> {[date |-> t, cells |-> v[t]] : t \in D}] :
              v \in [D -> [C -> {"1.0", Null}]]} :
           <<C, D>> \in (SUBSET WideColumns) \X (SUBSET Elems(date_shell))}

InitUpsert ==
    /\ path = "scripts"
    /\ today = 1
    /\ nfaults = 0
    /\ series_metadata = {}
    /\ fred_data_long = {}
    /\ observations = {}
    /\ extraction_log = <<>>
    /\ run = NoRun
    /\ prev = [done |-> FALSE, clean |-> TRUE, begin |-> 0]
    /\ last = NoCall
    /\ df = <<>>
    /\ nrows = <<0, 0>>
    /\ wide_df \in Frames
    /\ fred_data_wide \in Tables

\* upsert_wide_table(conn, wide_df)
UpsertWideTable ==
    /\ fred_data_wide' = upsert_wide_table(fred_data_wide, wide_df)
    /\ UNCHANGED <<path, today, nfaults, series_metadata, fred_data_long, observations,
                   extraction_log, run, prev, last>>
    /\ UNCHANGED <<df, wide_df, nrows>>

SpecUpsert == InitUpsert /\ [][UpsertWideTable]_vars

---------------------------------------------------------------------------
(* Properties *)

\* this step is a per-series extraction call that ran to its return or its exception
Call ==
    /\ run.idx \in 1..Len(Catalog)
    /\ last'.series = Catalog[run.idx]
    /\ "kill" \notin last'.faults

\* the audit write worked in the call
AuditOK == "log" \notin last'.faults

IsError(status) == status \in {"error", "failed"}

\* the step appends exactly one audit entry, and it is e
Appends(e) == extraction_log' = Append(extraction_log, e)

AppendsOne == /\ Len(extraction_log') = Len(extraction_log) + 1
              /\ SubSeq(extraction_log', 1, Len(extraction_log)) = extraction_log

NewEntry == extraction_log'[Len(extraction_log')]

Max(S) == CHOOSE m \in S : \A x \in S : x <= m

RowsOf(rows, s) == {r \in rows : r.series_id = s}

\* C1: the start date extract_and_store requests is the maximum stored date of the
\* series plus one day, or the default start date when the series has no stored
\* observation; a call whose request fails leaves metadata and observations as they were.
C1_Watermark ==
    [][(path = "scripts" /\ Call) =>
         LET s == last'.series
             stored == {strptime(r.date) : r \in RowsOf(fred_data_long, s)}
         IN /\ last'.requested
            /\ stored # {} => strptime(last'.start_date) = Max(stored) + 1
            /\ stored = {} => last'.start_date = DefaultStart
            /\ last'.fetched = -1 =>
                 /\ fred_data_long' = fred_data_long
                 /\ series_metadata' = series_metadata]_vars

\* a call asked for the day after the stored maximum, past a month's end
C1_Witness ==
    /\ path = "scripts"
    /\ last.series = "A"
    /\ last.fetched = 1
    /\ last.start_date = strftime(MonthLen + 1)
    /\ \E r \in fred_data_long : r.series_id = "A" /\ r.date = strftime(MonthLen)
    /\ \E r \in fred_data_long : r.series_id = "A" /\ r.date = strftime(MonthLen + 1)

\* the observations the call's request returned
Fetched == ProviderObservations(last'.series, last'.start_date)

\* C2: after a call has written its observations, the long store holds exactly one
\* row for each (series id, date) it wrote, and the row's value is the value written.
C2_ReplaceOnConflict ==
    [][(Call /\ last'.faults = {} /\ last'.fetched > 0) =>
         \A i \in 1..Len(Fetched) :
            LET key == {r \in RowsOf(LongStore', last'.series) : r.date = Fetched[i].date}
            IN /\ Cardinality(key) = 1
               /\ \A r \in key : r.value = ToReal(Fetched[i].value)]_vars

\* the run in progress repeats a run that went through the whole catalog without a
\* failure, and the provider has published and revised nothing since that run began
Repeat ==
    /\ run.n >= 2
    /\ prev.done /\ prev.clean
    /\ prev.begin = today
    /\ run.clean

\* C3: in a run that repeats a full run with no new provider data, every call leaves
\* the stored observations as they were and appends one success entry with a zero
\* count for its series.
C3_Idempotent ==
    [][(Call /\ Repeat /\ last'.faults = {}) =>
         /\ LongStore' = LongStore
         /\ AppendsOne
         /\ NewEntry.series_id = last'.series
         /\ NewEntry.status = "success"
         /\ NewEntry.records = 0]_vars

\* C4: every call (in which no write to the store fails) appends exactly one audit
\* entry for its series: success with the fetched record count, or error with the
\* exception detail.
C4_OneEntryPerCall ==
    [][(Call /\ AuditOK /\ "rows" \notin last'.faults) =>
         /\ AppendsOne
         /\ NewEntry.series_id = last'.series
         /\ \/ NewEntry.status = "success" /\ NewEntry.records = last'.fetched
            \/ IsError(NewEntry.status) /\ NewEntry.message \in {"provider", "storage",
                                                                 "Failed to store metadata"}]_vars

\* C5: a call whose metadata lookup fails leaves the metadata as it was, appends an
\* error entry, sends no observation request and stores no observation.
C5_MetadataFailureHalts ==
    [][(Call /\ AuditOK /\ "info" \in last'.faults) =>
         /\ series_metadata' = series_metadata
         /\ AppendsOne
         /\ NewEntry.series_id = last'.series
         /\ IsError(NewEntry.status)
         /\ ~last'.requested
         /\ LongStore' = LongStore]_vars

\* the run goes on to the next series of the catalog, or ends after the last one
Continues ==
    IF run.idx < Len(Catalog) THEN run'.idx = run.idx + 1 ELSE run'.idx = 0 /\ run'.done

\* C6: a call in which a provider request fails appends an error entry for its
\* series, the run goes on with the next series in catalog order, and the rows of the
\* other series stay as they were.
C6_ProviderFailureIsolated ==
    [][(Call /\ AuditOK /\ last'.faults \cap {"fetch", "info"} # {}) =>
         /\ AppendsOne
         /\ NewEntry.series_id = last'.series
         /\ IsError(NewEntry.status)
         /\ Continues
         /\ \A s \in Series \ {last'.series} : RowsOf(LongStore', s) = RowsOf(LongStore, s)]_vars

\* C7: a call in which the audit write fails raises nothing, and the run goes on.
C7_AuditWriteNeverRaises ==
    [][(Call /\ ~AuditOK) =>
         /\ ~last'.raised
         /\ Continues]_vars

\* C8: a call whose request returns zero observations appends a success entry with a
\* zero count for its series, and leaves the stored observations as they were.
C8_EmptyIsSuccess ==
    [][(Call /\ AuditOK /\ last'.fetched = 0) =>
         /\ AppendsOne
         /\ NewEntry.series_id = last'.series
         /\ NewEntry.status = "success"
         /\ NewEntry.records = 0
         /\ LongStore' = LongStore]_vars

LastEntry == extraction_log[Len(extraction_log)]

\* the stored maximum of the series is today, the call asked from tomorrow on, got
\* nothing and logged a success with a zero count
C8_Witness ==
    /\ last.series # "none"
    /\ last.fetched = 0
    /\ last.start_date = strftime(today + 1)
    /\ \E r \in RowsOf(LongStore, last.series) : r.date = strftime(today)
    /\ extraction_log # <<>>
    /\ LastEntry = [series_id |-> last.series, status |-> "success", records |-> 0,
                    message |-> "records"]

\* every observation the provider has from the default start date on is stored
AllStored ==
    \A s \in Series : \A d \in Published(s) :
        d >= DefaultStartDay => \E r \in RowsOf(LongStore, s) : r.date = strftime(d)

\* C9: when a run that was interrupted or had a failure is followed by a run that
\* goes through the whole catalog without a failure, the long store then holds every
\* observation the provider has from the default start date on.
C9_RetryCompletes ==
    (/\ run.idx = 0 /\ run.n >= 2
     /\ run.done /\ run.clean
     /\ ~(prev.done /\ prev.clean)
     /\ run.begin = today)
    => AllStored

\* C10: a call that is committed (and did not fetch zero observations) leaves either
\* the whole triple (metadata row, every fetched observation, one success entry) or
\* nothing but one error entry; a call that returns before any request leaves nothing.
C10_NoHalfWrittenSeries ==
    [][(Call /\ AuditOK /\ ~last'.raised /\ last'.fetched # 0) =>
         \/ /\ last'.skipped
            /\ UNCHANGED <<series_metadata, fred_data_long, observations, extraction_log>>
         \/ /\ last'.fetched >= 0
            /\ last'.series \in {m.id : m \in series_metadata'}
            /\ \A i \in 1..Len(Fetched) :
                 \E r \in RowsOf(LongStore', last'.series) : r.date = Fetched[i].date
            /\ AppendsOne
            /\ NewEntry.status = "success"
         \/ /\ series_metadata' = series_metadata
            /\ LongStore' = LongStore
            /\ AppendsOne
            /\ IsError(NewEntry.status)]_vars

---------------------------------------------------------------------------
(* Properties of the transform *)

\* this step is a run of the transform's main over a long store that is not empty
WideRun == df' = df /\ today' = today /\ df # <<>>

SeriesOf(d) == {d[i].series_id : i \in 1..Len(d)}

DatesOf(d) == {d[i].date : i \in 1..Len(d)}

\* the value the long rows hold for series s at date t once rows of one
\* (date, series) are collapsed to the last one seen; NaN when there is none
LastSeen(s, t) ==
    LET at == {i \in 1..Len(df) : df[i].date = t /\ df[i].series_id = s}
    IN IF at = {} THEN NaN ELSE df[Max(at)].value

\* the value of the latest observation of s that is not null and is dated at or
\* before t; NaN when there is none
LatestValue(s, t) ==
    LET dated == {u \in DatesOf(df) : TextLeq(u, t) /\ LastSeen(s, u) # NaN}
    IN IF dated = {} THEN NaN ELSE LastSeen(s, TextMax(dated))

\* C11: in the frame denormalize_observations returns, the cell of every date and
\* every series is the value of the latest non-null observation of the series dated
\* at or before that date, and null when there is none
C11_ForwardFill ==
    [][WideRun =>
         \A s \in SeriesOf(df) : \A t \in Elems(wide_df'.index) :
            wide_df'.values[t][fred_(s)] = LatestValue(s, t)]_vars

\* C12: the frame denormalize_observations returns has exactly one row for every date
\* of the calendar shell on or before the current date, in ascending date order, and no
\* other row; its columns are the distinct series ids of the long rows, each prefixed
\* with fred_
C12_ShellRows ==
    [][WideRun =>
         LET w == wide_df'
             n == Len(w.index)
         IN /\ Elems(w.index) = {t \in Elems(date_shell) : strptime(t) <= today}
            /\ \A i, j \in 1..n : i < j => strptime(w.index[i]) < strptime(w.index[j])
            /\ DOMAIN w.values = Elems(w.index)
            /\ w.columns = {fred_(s) : s \in SeriesOf(df)}
            /\ \A t \in Elems(w.index) : DOMAIN w.values[t] = w.columns]_vars

\* a run has built the frame of a long store that holds an observation dated before
\* the shell and one dated after the current date; the frame stops before the end of
\* the shell and has a row of nulls
C12_Witness ==
    /\ df # <<>>
    /\ wide_df = denormalize_observations(df, date_shell)
    /\ \E i \in 1..Len(df) : strptime(df[i].date) < ShellStartDay
    /\ \E i \in 1..Len(df) : strptime(df[i].date) > today
    /\ wide_df.index # <<>>
    /\ Len(wide_df.index) < Len(date_shell)
    /\ \E t \in Elems(wide_df.index) : \A c \in wide_df.columns : wide_df.values[t][c] = NaN

\* the dates fred_data_wide has a row for
StoredDates(tbl) == {r.date : r \in tbl.rows}

\* what the row of date t holds in column c
Stored(tbl, t, c) == (CHOOSE r \in tbl.rows : r.date = t).cells[c]

\* since the last run of the transform the long store gained rows, all of them of
\* series it did not hold at that run
UnseenAdded ==
    /\ nrows[2] \in 1..(Len(df) - 1)
    /\ \A i \in (nrows[2] + 1)..Len(df) :
          df[i].series_id \notin SeriesOf(SubSeq(df, 1, nrows[2]))

\* C13: no step drops a column of the wide table; a run adds exactly the columns of
\* its frame that the table lacks, and ensure_columns on the same frame again changes
\* nothing; a run after series the store did not hold were added adds their columns
\* and leaves every stored value of every existing column as it was
C13_AdditiveSchema ==
    [][/\ fred_data_wide.columns \subseteq fred_data_wide'.columns
       /\ WideRun =>
            /\ fred_data_wide'.columns \ fred_data_wide.columns
                 = wide_df'.columns \ fred_data_wide.columns
            /\ ensure_columns(fred_data_wide', wide_df'.columns) = fred_data_wide'
       /\ WideRun /\ UnseenAdded =>
            /\ \A i \in (nrows[2] + 1)..Len(df) :
                  /\ fred_(df[i].series_id) \notin fred_data_wide.columns
                  /\ fred_(df[i].series_id) \in fred_data_wide'.columns
            /\ \A t \in StoredDates(fred_data_wide) : \A c \in fred_data_wide.columns :
                  /\ t \in StoredDates(fred_data_wide')
                  /\ Stored(fred_data_wide', t, c) = Stored(fred_data_wide, t, c)]_vars

\* a run stored a value of one series, a row of another series was added, and the
\* next run added its column
C13_Witness ==
    /\ nrows = <<1, 2>>
    /\ Len(df) = 2
    /\ df[1].series_id # df[2].series_id
    /\ fred_data_wide.columns = {fred_(df[1].series_id), fred_(df[2].series_id)}
    /\ \E t \in StoredDates(fred_data_wide) :
          Stored(fred_data_wide, t, fred_(df[1].series_id)) # Null

\* C14: after upsert_wide_table(frame) the wide table has exactly one row per date;
\* at every date of the frame every column of the frame holds the frame's value, NULL
\* for a null of the frame whatever was stored; a stored row keeps its value in every
\* column the frame lacks, and every value when the frame has no row of its date
C14_UpsertByDate ==
    [][LET old == fred_data_wide
           new == fred_data_wide'
           w == wide_df
       IN /\ \A r1, r2 \in new.rows : r1.date = r2.date => r1 = r2
          /\ StoredDates(new) = StoredDates(old) \cup Elems(w.index)
          /\ \A t \in Elems(w.index) : \A c \in w.columns :
                Stored(new, t, c) = IF w.values[t][c] = NaN THEN Null
                                    ELSE w.values[t][c]
          /\ \A t \in StoredDates(old) : \A c \in old.columns :
                (c \notin w.columns \/ t \notin Elems(w.index))
                   => Stored(new, t, c) = Stored(old, t, c)]_vars

\* the frame has been upserted (its values are 2.0 and null, the table's were 1.0 and
\* NULL): a value of the frame is stored, a null of the frame is stored as NULL, and a
\* stored value stays in a column the frame lacks
C14_Witness ==
    /\ fred_data_wide = upsert_wide_table(fred_data_wide, wide_df)
    /\ \E t \in Elems(wide_df.index) : \E c \in wide_df.columns :
          wide_df.values[t][c] = "2.0" /\ Stored(fred_data_wide, t, c) = "2.0"
    /\ \E t \in Elems(wide_df.index) : \E c \in wide_df.columns :
          wide_df.values[t][c] = NaN /\ Stored(fred_data_wide, t, c) = Null
    /\ \E t \in Elems(wide_df.index) : \E c \in fred_data_wide.columns \ wide_df.columns :
          Stored(fred_data_wide, t, c) = "1.0"

---------------------------------------------------------------------------
(* Properties of FREDExtractor.extract_series *)

\* the next step is extract_series(series_id, force_update=False) for a series that has
\* a series_metadata row
SkipCall ==
    /\ path = "package"
    /\ run.idx \in 1..Len(Catalog)
    /\ ~run.force
    /\ \E m \in series_metadata : m.id = Catalog[run.idx]

\* C15: extract_series with force_update=False for a series that has a metadata row
\* makes no provider request, writes no metadata, observation or extraction_log row,
\* and returns True
C15_SkipExisting ==
    [][SkipCall =>
         /\ last'.series = Catalog[run.idx]
         /\ last'.skipped /\ ~last'.requested /\ last'.fetched = -1
         /\ last'.faults = {}
         /\ last'.result
         /\ UNCHANGED <<series_metadata, observations, extraction_log>>]_vars

\* extract_series has skipped a series that has a metadata row and no observation
\* stored: an earlier call stored the metadata and logged a failure
C15_Witness ==
    /\ path = "package"
    /\ last.skipped /\ last.result
    /\ \E m \in series_metadata : m.id = last.series
    /\ RowsOf(observations, last.series) = {}
    /\ \E i \in 1..Len(extraction_log) :
          /\ extraction_log[i].series_id = last.series
          /\ IsError(extraction_log[i].status)

====
